---- MODULE Spec2Model ----
(***************************************************************************)
(* Model of backend/server.js: the Express handlers of the indoor-media    *)
(* API over two mongoose collections (Playlist, Monitor) and the multer    *)
(* disk storage under uploads/.                                            *)
(*                                                                         *)
(* Environment assumptions of this development:                            *)
(*  - the MongoDB connection is up: no handler takes its catch branch      *)
(*    because the store is unreachable.  The catch branches that the code  *)
(*    itself provokes (a TypeError, a failed versioned update) are         *)
(*    modelled;                                                            *)
(*  - every :id parameter is a well-formed ObjectId (an id that was or     *)
(*    may later be generated), so that findById casts it;                  *)
(*  - a handler runs without interruption between two awaits; requests     *)
(*    interleave at their awaits;                                          *)
(*  - mongoose as the schemas configure it (lines 30-38, 146-152): strict  *)
(*    schemas, the default version key __v.  A path the schema does not    *)
(*    declare reads as undefined and is not saved; save() writes only the  *)
(*    modified paths; a save that sets a whole array updates where         *)
(*    {_id, __v} and increments __v.                                       *)
(***************************************************************************)
EXTENDS Integers, Sequences, FiniteSets, TLC

\* ---------------------------------------------------------------- bounds
MaxPlaylists == 1      \* playlist ObjectIds that can be generated
MaxMonitors == 1       \* monitor ObjectIds that can be generated
MaxMidias == 2         \* media sub-document ObjectIds that can be generated
MaxBatch == 2          \* files in one multipart request
MaxClock == 2          \* values Date.now() takes

Workers == {1, 2}                       \* requests in flight at once
PlaylistNames == {"Lobby"}
MonitorNames == {"Lobby Screen"}
\* originalname of an uploaded file, split as path.extname splits it
OriginalNames == { [base |-> "a", ext |-> ".png"],
                   [base |-> "b", ext |-> ".png"] }

\* The ids the server generates.  A request can also name NoSuchPlaylist, which
\* is well formed and never generated.
PlaylistIds == 1..MaxPlaylists
NoSuchPlaylist == MaxPlaylists + 1
RequestPlaylistIds == PlaylistIds \cup {NoSuchPlaylist}
MonitorIds == 1..MaxMonitors
MidiaIds == 1..MaxMidias

\* An optional value is a set of at most one element: JavaScript undefined
\* (a field that is not set, a body field that was not sent) is the empty one.
Undefined == {}
Some(v) == {v}
The(opt) == CHOOSE v \in opt : TRUE

VARIABLES
  playlists,      \* Playlist collection: _id -> stored document
  monitores,      \* Monitor collection: _id -> stored document
  nextPlaylist,   \* next playlist ObjectId to be generated
  nextMonitor,    \* next monitor ObjectId to be generated
  nextMidia,      \* next media sub-document ObjectId to be generated
  uploads,        \* uploads/ directory: the names of the files stored in it
  now,            \* Date.now()
  req,            \* the requests in flight, one per worker
  res             \* the response sent last

vars == <<playlists, monitores, nextPlaylist, nextMonitor, nextMidia,
          uploads, now, req, res>>

db == <<playlists, monitores, nextPlaylist, nextMonitor, nextMidia>>

\* ------------------------------------------------------------- helpers
Idle == [pc |-> "idle"]

\* A request that arrives is served in the first free slot.
Free(w) == req[w] = Idle /\ \A v \in Workers : v < w => req[v] # Idle

Range(s) == { s[i] : i \in DOMAIN s }

RECURSIVE SeqsUpTo(_, _)
SeqsUpTo(S, n) ==
  IF n = 0 THEN { <<>> }
  ELSE LET shorter == SeqsUpTo(S, n - 1)
       IN shorter \cup { Append(s, x) : s \in { t \in shorter : Len(t) = n - 1 }, x \in S }

\* The batches a multipart request can carry in field `midias`: one file or
\* more, each of its own name.
Batches == { b \in SeqsUpTo(OriginalNames, MaxBatch) :
               Len(b) >= 1 /\ \A i, j \in DOMAIN b : b[i] = b[j] => i = j }

\* the filter with its test inverted: it keeps the item it should drop
RECURSIVE FilterMidiasInverted(_, _)
FilterMidiasInverted(midias, midiaId) ==
  IF midias = <<>> THEN <<>>
  ELSE IF Head(midias)._id = midiaId
       THEN <<Head(midias)>> \o FilterMidiasInverted(Tail(midias), midiaId)
       ELSE FilterMidiasInverted(Tail(midias), midiaId)

\* midias.filter((midia) => midia._id.toString() !== midiaId)
RECURSIVE FilterMidias(_, _)
FilterMidias(midias, midiaId) ==
  IF midias = <<>> THEN <<>>
  ELSE IF Head(midias)._id # midiaId
       THEN <<Head(midias)>> \o FilterMidias(Tail(midias), midiaId)
       ELSE FilterMidias(Tail(midias), midiaId)

\* a find() that misses the document inserted last
RECURSIVE FindAllButLast(_)
FindAllButLast(coll) ==
  IF Cardinality(DOMAIN coll) <= 1 THEN <<>>
  ELSE LET first == CHOOSE i \in DOMAIN coll : \A j \in DOMAIN coll : i <= j
       IN <<coll[first]>> \o FindAllButLast([i \in DOMAIN coll \ {first} |-> coll[i]])

\* The documents of a collection in insertion (= _id) order, as find() gives them.
RECURSIVE FindAll(_)
FindAll(coll) ==
  IF DOMAIN coll = {} THEN <<>>
  ELSE LET first == CHOOSE i \in DOMAIN coll : \A j \in DOMAIN coll : i <= j
       IN <<coll[first]>> \o FindAll([i \in DOMAIN coll \ {first} |-> coll[i]])

\* the routes whose handlers await more than once, or answer in several places
UploadOp == "POST /playlists/:id/midias"
RemoveOp == "DELETE /playlists/:playlistId/midias/:midiaId"
LinkOp == "POST /monitores/:monitorId/playlists"
RelinkOp == "PUT /monitores/:monitorId/playlists"

\* res.status(status).json(body), with the request it answers
Respond(op, params, status, body) ==
  [op |-> op, params |-> params, status |-> status, body |-> body]

\* --------------------------------------------------------------- Init
Init ==
  /\ playlists = << >>
  /\ monitores = << >>
  /\ nextPlaylist = 1
  /\ nextMonitor = 1
  /\ nextMidia = 1
  /\ uploads = {}
  /\ now = 1
  /\ req = [w \in Workers |-> Idle]
  /\ res = Respond("none", Undefined, 0, Undefined)

\* Date.now() advances
Tick ==
  /\ now < MaxClock
  /\ now' = now + 1
  /\ UNCHANGED <<db, uploads, req, res>>

\* ---------------------------------------------------------- playlists
\* new Playlist({ name }): midias defaults to [], __v to 0
NewPlaylist(id, name) == [_id |-> id, name |-> name, midias |-> <<>>, __v |-> 0]

\* GET /playlists
GetPlaylists ==
  /\ res' = Respond("GET /playlists", Undefined, 200, FindAll(playlists))
  /\ UNCHANGED <<db, uploads, now, req>>

\* POST /playlists
PostPlaylists(name) ==
  /\ nextPlaylist <= MaxPlaylists
  /\ LET newPlaylist == NewPlaylist(nextPlaylist, name)
     IN /\ playlists' = (nextPlaylist :> newPlaylist) @@ playlists
        /\ res' = Respond("POST /playlists", [name |-> name], 201, newPlaylist)
  /\ nextPlaylist' = nextPlaylist + 1
  /\ UNCHANGED <<monitores, nextMonitor, nextMidia, uploads, now, req>>

\* Playlist.findByIdAndDelete(id)
FindByIdAndDelete(coll, id) == [i \in DOMAIN coll \ {id} |-> coll[i]]

\* a playlist delete that also deletes the monitors left without a stored playlist
DeletePlaylistCascade(id) ==
  /\ playlists' = FindByIdAndDelete(playlists, id)
  /\ monitores' = [m \in { n \in DOMAIN monitores :
                             /\ monitores[n].playlist # Undefined
                             /\ The(monitores[n].playlist) \in DOMAIN playlists' }
                     |-> monitores[m]]
  /\ res' = Respond("DELETE /playlists/:id", [id |-> id], 200, Undefined)
  /\ UNCHANGED <<nextPlaylist, nextMonitor, nextMidia, uploads, now, req>>

\* DELETE /playlists/:id
DeletePlaylist(id) ==
  /\ playlists' = FindByIdAndDelete(playlists, id)
  /\ res' = Respond("DELETE /playlists/:id", [id |-> id], 200, Undefined)
  /\ UNCHANGED <<monitores, nextPlaylist, nextMonitor, nextMidia, uploads, now, req>>

\* ------------------------------------------------- media of a playlist
\* multer.diskStorage filename: Date.now() + path.extname(file.originalname)
Filename(clock, file) == [ts |-> clock, ext |-> file.ext]

\* The media sub-document ids still to be generated for requests in multer.
Reserved ==
  LET n(w) == IF req[w].pc = "multer" THEN Len(req[w].params.midias) ELSE 0
      RECURSIVE Sum(_)
      Sum(W) == IF W = {} THEN 0
                ELSE LET w == CHOOSE x \in W : TRUE IN n(w) + Sum(W \ {w})
  IN Sum(Workers)

\* POST /playlists/:id/midias arrives: upload.array('midias') runs before the handler
PostMidias(w, id, batch) ==
  /\ Free(w)
  /\ nextMidia + Reserved + Len(batch) <= MaxMidias + 1
  /\ req' = [req EXCEPT ![w] = [pc |-> "multer", op |-> UploadOp,
                                params |-> [id |-> id, midias |-> batch], files |-> <<>>]]
  /\ UNCHANGED <<db, uploads, now, res>>

\* multer stores the next file of the request under uploads/
StoreFile(w) ==
  /\ req[w].pc = "multer"
  /\ Len(req[w].files) < Len(req[w].params.midias)
  /\ LET file == req[w].params.midias[Len(req[w].files) + 1]
         filename == Filename(now, file)
     IN /\ uploads' = uploads \cup {filename}   \* a file of that name is overwritten
        /\ req' = [req EXCEPT ![w].files = Append(@, [originalname |-> file, filename |-> filename])]
  /\ UNCHANGED <<db, now, res>>

\* the items in the reverse of the upload order
MidiasItemsReversed(files, firstId) ==
  [i \in 1..Len(files) |-> [_id |-> firstId + i - 1,
                            name |-> files[Len(files) + 1 - i].originalname,
                            url |-> [dir |-> "/uploads/",
                                     filename |-> files[Len(files) + 1 - i].filename]]]

\* the items located by the name the client gave, not the name multer stored
MidiasItemsByOriginalName(files, firstId) ==
  [i \in 1..Len(files) |-> [_id |-> firstId + i - 1,
                            name |-> files[i].originalname,
                            url |-> [dir |-> "/uploads/", filename |-> files[i].originalname]]]

\* the items of one request all given the same _id
MidiasItemsSameId(files, firstId) ==
  [i \in 1..Len(files) |-> [_id |-> firstId,
                            name |-> files[i].originalname,
                            url |-> [dir |-> "/uploads/", filename |-> files[i].filename]]]

\* req.files.map(...), each item cast to a sub-document with a fresh _id
MidiasItems(files, firstId) ==
  [i \in 1..Len(files) |-> [_id |-> firstId + i - 1,
                            name |-> files[i].originalname,
                            url |-> [dir |-> "/uploads/", filename |-> files[i].filename]]]

\* the upload handler without its check that the playlist was found: it
\* creates the playlist it was asked to extend
PostMidiasFindUpsert(w) ==
  /\ req[w].pc = "multer"
  /\ Len(req[w].files) = Len(req[w].params.midias)
  /\ req[w].params.id \notin DOMAIN playlists
  /\ playlists' = (req[w].params.id :> NewPlaylist(req[w].params.id, "")) @@ playlists
  /\ res' = Respond(req[w].op, req[w].params, 404, Undefined)
  /\ req' = [req EXCEPT ![w] = Idle]
  /\ UNCHANGED <<monitores, nextPlaylist, nextMonitor, nextMidia, uploads, now>>

\* the handler of POST /playlists/:id/midias up to `await playlist.save()`
PostMidiasFind(w) ==
  /\ req[w].pc = "multer"
  /\ Len(req[w].files) = Len(req[w].params.midias)
  /\ LET id == req[w].params.id
     IN IF id \notin DOMAIN playlists
        THEN /\ res' = Respond(req[w].op, req[w].params, 404, Undefined)
             /\ req' = [req EXCEPT ![w] = Idle]
             /\ UNCHANGED nextMidia
        ELSE LET playlist == playlists[id]
                 midiasItems == MidiasItems(req[w].files, nextMidia)
             IN /\ req' = [req EXCEPT ![w] =
                            [pc |-> "save", op |-> req[w].op, params |-> req[w].params,
                             files |-> req[w].files, read |-> playlist,
                             doc |-> [playlist EXCEPT !.midias = playlist.midias \o midiasItems],
                             modified |-> TRUE]]
                /\ nextMidia' = nextMidia + Len(midiasItems)
                /\ UNCHANGED res
  /\ UNCHANGED <<playlists, monitores, nextPlaylist, nextMonitor, uploads, now>>

\* DELETE /playlists/:playlistId/midias/:midiaId up to `await playlist.save()`.
\* Assigning an array equal to the one read does not mark midias modified.
DeleteMidiaFind(w, playlistId, midiaId) ==
  /\ Free(w)
  /\ IF playlistId \notin DOMAIN playlists
     THEN /\ res' = Respond(RemoveOp,
                            [playlistId |-> playlistId, midiaId |-> midiaId], 404, Undefined)
          /\ UNCHANGED req
     ELSE LET playlist == playlists[playlistId]
              kept == FilterMidias(playlist.midias, midiaId)
          IN /\ req' = [req EXCEPT ![w] =
                         [pc |-> "save", op |-> RemoveOp,
                          params |-> [playlistId |-> playlistId, midiaId |-> midiaId],
                          read |-> playlist,
                          doc |-> [playlist EXCEPT !.midias = kept],
                          modified |-> (kept # playlist.midias)]]
             /\ UNCHANGED res
  /\ UNCHANGED <<db, uploads, now>>

\* a save that matches the document by _id alone
SaveMatchesById(coll, doc) == doc._id \in DOMAIN coll

\* mongoose: a save that sets an array path updates where {_id, __v} and
\* increments __v; it matches no document when the document is gone or another
\* save of the array got in first (VersionError).
SaveMatches(coll, doc) == doc._id \in DOMAIN coll /\ coll[doc._id].__v = doc.__v

\* `await playlist.save()` and the response, of either media handler
SaveMidias(w) ==
  /\ req[w].pc = "save"
  /\ req[w].op \in {UploadOp, RemoveOp}
  /\ LET doc == req[w].doc
     IN IF req[w].modified
        THEN IF SaveMatches(playlists, doc)
             THEN /\ playlists' = [playlists EXCEPT ![doc._id].midias = doc.midias,
                                                    ![doc._id].__v = @ + 1]
                  /\ res' = Respond(req[w].op, req[w].params, 200, doc.midias)
             ELSE /\ res' = Respond(req[w].op, req[w].params, 500, Undefined)
                  /\ UNCHANGED playlists
        ELSE \* nothing to write; a newer mongoose rejects when the document is gone
             /\ \/ res' = Respond(req[w].op, req[w].params, 200, doc.midias)
                \/ /\ doc._id \notin DOMAIN playlists
                   /\ res' = Respond(req[w].op, req[w].params, 500, Undefined)
             /\ UNCHANGED playlists
  /\ req' = [req EXCEPT ![w] = Idle]
  /\ UNCHANGED <<monitores, nextPlaylist, nextMonitor, nextMidia, uploads, now>>

\* ------------------------------------------------------------ monitors
\* monitorSchema: the paths a Monitor document stores
MonitorPaths == {"_id", "name", "playlist", "__v"}

\* new Monitor({ name }): playlist is not set
NewMonitor(id, name) == [_id |-> id, name |-> name, playlist |-> Undefined, __v |-> 0]

\* doc.path of a mongoose document: a path the schema does not declare is undefined
Get(doc, path) == IF path \in MonitorPaths THEN Some(doc[path]) ELSE Undefined

\* populate({ path: 'playlist', populate: { path: 'midias' } }): the reference is
\* replaced by the playlist document (midias are embedded in it already), by
\* null when no such playlist is stored; an unset reference stays unset.
Populate(monitor) ==
  IF monitor.playlist = Undefined THEN monitor
  ELSE IF The(monitor.playlist) \in DOMAIN playlists
       THEN [monitor EXCEPT !.playlist = Some(playlists[The(monitor.playlist)])]
       ELSE [monitor EXCEPT !.playlist = Some("null")]

\* GET /monitores
GetMonitores ==
  /\ LET found == FindAll(monitores)
     IN res' = Respond("GET /monitores", Undefined, 200, [i \in DOMAIN found |-> Populate(found[i])])
  /\ UNCHANGED <<db, uploads, now, req>>

\* POST /monitores
PostMonitores(name) ==
  /\ nextMonitor <= MaxMonitors
  /\ LET newMonitor == NewMonitor(nextMonitor, name)
     IN /\ monitores' = (nextMonitor :> newMonitor) @@ monitores
        /\ res' = Respond("POST /monitores", [name |-> name], 201, newMonitor)
  /\ nextMonitor' = nextMonitor + 1
  /\ UNCHANGED <<playlists, nextPlaylist, nextMidia, uploads, now, req>>

\* a monitor delete that answers as the playlist delete does
DeleteMonitorSilent(id) ==
  /\ monitores' = FindByIdAndDelete(monitores, id)
  /\ res' = Respond("DELETE /monitores/:id", [id |-> id], 200, Undefined)
  /\ UNCHANGED <<playlists, nextPlaylist, nextMonitor, nextMidia, uploads, now, req>>

\* DELETE /monitores/:id
DeleteMonitor(id) ==
  /\ LET deletedMonitor == IF id \in DOMAIN monitores THEN Some(monitores[id]) ELSE Undefined
     IN IF deletedMonitor = Undefined
        THEN /\ res' = Respond("DELETE /monitores/:id", [id |-> id], 404, Undefined)
             /\ UNCHANGED monitores
        ELSE /\ monitores' = FindByIdAndDelete(monitores, id)
             /\ res' = Respond("DELETE /monitores/:id", [id |-> id], 200, The(deletedMonitor))
  /\ UNCHANGED <<playlists, nextPlaylist, nextMonitor, nextMidia, uploads, now, req>>

\* POST /monitores/:monitorId/playlists from `try` on: the monitor is looked up
\* and the playlist added to monitor.playlists.  No await separates findById
\* from the response when reading monitor.playlists throws.
LinkPlaylist(monitorId, body) ==
  LET params == [monitorId |-> monitorId, playlistId |-> body.playlistId]
  IN IF monitorId \notin DOMAIN monitores
     THEN /\ res' = Respond(LinkOp, params, 404, Undefined)
          /\ UNCHANGED monitores
     ELSE LET monitor == monitores[monitorId]
              linked == Get(monitor, "playlists")
              playlistId == The(body.playlistId)
          IN IF linked = Undefined
             THEN \* TypeError: cannot read `includes` of undefined
                  /\ res' = Respond(LinkOp, params, 500, Undefined)
                  /\ UNCHANGED monitores
             ELSE IF playlistId \in Range(The(linked))
             THEN /\ res' = Respond(LinkOp, params, 400, Undefined)
                  /\ UNCHANGED monitores
             ELSE /\ monitores' = [monitores EXCEPT ![monitorId].playlists =
                                                       Append(The(linked), playlistId)]
                  /\ res' = Respond(LinkOp, params, 200, monitores'[monitorId])

\* the handler without its validation of body.playlistId
PostMonitorPlaylistsUnvalidated(monitorId, body) ==
  /\ LinkPlaylist(monitorId, body)
  /\ UNCHANGED <<playlists, nextPlaylist, nextMonitor, nextMidia, uploads, now, req>>

\* POST /monitores/:monitorId/playlists; body.playlistId is optional
PostMonitorPlaylists(monitorId, body) ==
  /\ IF body.playlistId = Undefined
     THEN /\ res' = Respond(LinkOp, [monitorId |-> monitorId, playlistId |-> body.playlistId],
                            400, Undefined)
          /\ UNCHANGED monitores
     ELSE LinkPlaylist(monitorId, body)
  /\ UNCHANGED <<playlists, nextPlaylist, nextMonitor, nextMidia, uploads, now, req>>

\* the relink assigning the path the schema declares, `playlist`
AssignPlaylist(doc, path, value) ==
  [doc |-> [doc.doc EXCEPT !.playlist = value], modified |-> doc.modified \cup {"playlist"}]

\* monitor.playlistId = playlistId: an assignment to a path of the schema marks
\* the path modified; any other is a property of the object in memory only.
Assign(doc, path, value) ==
  IF path \in MonitorPaths
  THEN [doc |-> [doc.doc EXCEPT ![path] = value], modified |-> doc.modified \cup {path}]
  ELSE doc

\* PUT /monitores/:monitorId/playlists up to `await monitor.save()`
PutMonitorPlaylistsFind(w, monitorId, body) ==
  /\ Free(w)
  /\ IF monitorId \notin DOMAIN monitores
     THEN /\ res' = Respond(RelinkOp,
                            [monitorId |-> monitorId, playlistId |-> body.playlistId],
                            404, Undefined)
          /\ UNCHANGED req
     ELSE LET monitor == [doc |-> monitores[monitorId], modified |-> {}]
              assigned == Assign(monitor, "playlistId", body.playlistId)
          IN /\ req' = [req EXCEPT ![w] =
                         [pc |-> "save", op |-> RelinkOp,
                          params |-> [monitorId |-> monitorId, playlistId |-> body.playlistId],
                          doc |-> assigned.doc, modified |-> assigned.modified]]
             /\ UNCHANGED res
  /\ UNCHANGED <<db, uploads, now>>

\* `await monitor.save()` and the response: the modified paths are written
SaveMonitor(w) ==
  /\ req[w].pc = "save"
  /\ req[w].op = RelinkOp
  /\ LET doc == req[w].doc
     IN IF doc._id \in DOMAIN monitores
        THEN /\ monitores' = [monitores EXCEPT ![doc._id] =
                                [p \in MonitorPaths |->
                                   IF p \in req[w].modified THEN doc[p] ELSE @[p]]]
             /\ res' = Respond(req[w].op, req[w].params, 200, doc)
        ELSE \* nothing is written; a newer mongoose rejects as the document is gone
             /\ res' \in { Respond(req[w].op, req[w].params, 200, doc), Respond(req[w].op, req[w].params, 500, Undefined) }
             /\ UNCHANGED monitores
  /\ req' = [req EXCEPT ![w] = Idle]
  /\ UNCHANGED <<playlists, nextPlaylist, nextMonitor, nextMidia, uploads, now>>

\* what a request body may carry as playlistId
Bodies == { [playlistId |-> id] : id \in {Undefined} \cup { Some(p) : p \in PlaylistIds } }

Next ==
  \/ Tick
  \/ GetPlaylists
  \/ \E name \in PlaylistNames : PostPlaylists(name)
  \/ \E id \in RequestPlaylistIds : DeletePlaylist(id)
  \/ \E w \in Workers, id \in RequestPlaylistIds, batch \in Batches : PostMidias(w, id, batch)
  \/ \E w \in Workers : StoreFile(w)
  \/ \E w \in Workers : PostMidiasFind(w)
  \/ \E w \in Workers, id \in RequestPlaylistIds, midiaId \in MidiaIds : DeleteMidiaFind(w, id, midiaId)
  \/ \E w \in Workers : SaveMidias(w)
  \/ GetMonitores
  \/ \E name \in MonitorNames : PostMonitores(name)
  \/ \E id \in MonitorIds : DeleteMonitor(id)
  \/ \E id \in MonitorIds, body \in Bodies : PostMonitorPlaylists(id, body)
  \/ \E w \in Workers, id \in MonitorIds, body \in Bodies : PutMonitorPlaylistsFind(w, id, body)
  \/ \E w \in Workers : SaveMonitor(w)

Spec == Init /\ [][Next]_vars

\* ====================================================================
\* Properties
\* ====================================================================

\* `new` is `old` without the items whose _id is midiaId, the others in order
IsRemoval(old, new, midiaId) ==
  LET kept == { i \in DOMAIN old : old[i]._id # midiaId }
      rank(i) == Cardinality({ j \in kept : j <= i })
  IN /\ Len(new) = Cardinality(kept)
     /\ \A i \in kept : new[rank(i)] = old[i]

\* C1: linking a playlist to an existing monitor succeeds (200) and records the
\* playlist in the monitor's stored association when it was not linked, and is
\* rejected with Conflict (409), the monitor unchanged, when it was: the
\* association never holds a playlist twice.
C1_LinkThenConflict ==
  [][\A m \in MonitorIds, p \in PlaylistIds :
       (PostMonitorPlaylists(m, [playlistId |-> Some(p)]) /\ m \in DOMAIN monitores)
       => IF p \in monitores[m].playlist
          THEN res'.status = 409 /\ monitores' = monitores
          ELSE res'.status = 200 /\ monitores'[m].playlist = monitores[m].playlist \cup {p}]_vars

\* C2: an upload of N files whose playlist nobody changed since the request
\* read it answers 200 and stores the previous media list followed by N new
\* items, in upload order, each named as its file was and located at a file
\* that uploads/ holds.
C2_UploadAppends ==
  [][\A w \in Workers :
       (/\ SaveMidias(w)
        /\ req[w].op = UploadOp
        /\ req[w].params.id \in DOMAIN playlists
        /\ playlists[req[w].params.id] = req[w].read)
       => LET id == req[w].params.id
              batch == req[w].params.midias
              prev == playlists[id].midias
              new == playlists'[id].midias
          IN /\ res'.status = 200
             /\ res'.body = new
             /\ Len(new) = Len(prev) + Len(batch)
             /\ SubSeq(new, 1, Len(prev)) = prev
             /\ \A i \in DOMAIN batch :
                   /\ new[Len(prev) + i].name = batch[i]
                   /\ new[Len(prev) + i].url.dir = "/uploads/"
                   /\ new[Len(prev) + i].url.filename \in uploads']_vars

\* C2 happens: a second upload has been appended to a non-empty media list.
C2_Witness ==
  /\ res.op = UploadOp
  /\ res.status = 200
  /\ \E id \in DOMAIN playlists :
        playlists[id].midias = res.body /\ Len(res.body) = 2 /\ playlists[id].__v = 2

\* C3 as stated: every removal from a playlist that is stored answers 200 and
\* leaves the playlist's media list without exactly the items of that id.
C3_RemoveAlways ==
  [][\A w \in Workers :
       (/\ SaveMidias(w)
        /\ req[w].op = RemoveOp
        /\ req[w].params.playlistId \in DOMAIN playlists)
       => LET id == req[w].params.playlistId
          IN /\ res'.status = 200
             /\ res'.body = playlists'[id].midias
             /\ IsRemoval(playlists[id].midias, playlists'[id].midias, req[w].params.midiaId)]_vars

\* C3 amended: a removal whose playlist nobody changed since the request read
\* it answers 200 with the stored media list, which is the previous one
\* without exactly the item of that id, the others in their order; it is the
\* previous list when no item has that id.
C3_RemoveExactly ==
  [][\A w \in Workers :
       (/\ SaveMidias(w)
        /\ req[w].op = RemoveOp
        /\ req[w].params.playlistId \in DOMAIN playlists
        /\ playlists[req[w].params.playlistId] = req[w].read)
       => LET id == req[w].params.playlistId
              midiaId == req[w].params.midiaId
              prev == playlists[id].midias
              new == playlists'[id].midias
          IN /\ res'.status = 200
             /\ res'.body = new
             /\ IsRemoval(prev, new, midiaId)
             /\ (\A i \in DOMAIN prev : prev[i]._id # midiaId) => new = prev]_vars

\* C3 happens: one of two media items has been removed and the other is left.
C3_Witness ==
  /\ res.op = RemoveOp
  /\ res.status = 200
  /\ \E id \in DOMAIN playlists :
        /\ playlists[id].midias = res.body
        /\ Len(res.body) = 1
        /\ res.body[1]._id # res.params.midiaId
        /\ playlists[id].__v = 2

\* C4: DELETE of a monitor id that is not stored answers 404, DELETE of a
\* playlist id that is not stored answers 200, both leave the two collections
\* as they were; a deleted playlist is not stored, so deleting it again is
\* that no-op.
C4_DeleteMissing ==
  [][/\ \A id \in MonitorIds :
          (DeleteMonitor(id) /\ id \notin DOMAIN monitores)
          => res'.status = 404 /\ monitores' = monitores /\ playlists' = playlists
     /\ \A id \in RequestPlaylistIds :
          /\ (DeletePlaylist(id) /\ id \notin DOMAIN playlists)
             => res'.status = 200 /\ monitores' = monitores /\ playlists' = playlists
          /\ DeletePlaylist(id) => id \notin DOMAIN playlists']_vars

\* C4 happens: a monitor that is not stored was deleted while a playlist is stored.
C4_Witness ==
  /\ res.op = "DELETE /monitores/:id"
  /\ res.status = 404
  /\ DOMAIN playlists # {}

\* C5: GET /monitores answered right after the link of monitor m to playlist p,
\* both stored and p holding the media named a, b in that order, returns m
\* with p resolved and p's media list.
C5_EndToEnd ==
  [][\A m \in DOMAIN monitores, p \in DOMAIN playlists :
       (/\ GetMonitores
        /\ res.op = LinkOp
        /\ res.params = [monitorId |-> m, playlistId |-> Some(p)]
        /\ Len(playlists[p].midias) = 2
        /\ playlists[p].midias[1].name = [base |-> "a", ext |-> ".png"]
        /\ playlists[p].midias[2].name = [base |-> "b", ext |-> ".png"])
       => \E i \in DOMAIN res'.body :
             /\ res'.body[i]._id = m
             /\ res'.body[i].playlist = Some(playlists[p])]_vars

\* C6: POST /playlists stores the playlist under a new id with the name given
\* and no media; GET /playlists returns every stored playlist as stored; so a
\* list answered right after a creation includes the new playlist with its
\* name and an empty media list.
C6_CreateThenList ==
  [][/\ \A name \in PlaylistNames :
          PostPlaylists(name)
          => /\ nextPlaylist \notin DOMAIN playlists
             /\ playlists'[nextPlaylist].name = name
             /\ playlists'[nextPlaylist].midias = <<>>
             /\ res'.status = 201
     /\ GetPlaylists
          => /\ res'.status = 200
             /\ \A p \in DOMAIN playlists :
                   \E i \in DOMAIN res'.body : res'.body[i] = playlists[p]
     /\ (GetPlaylists /\ res.op = "POST /playlists" /\ res.status = 201)
          => \E i \in DOMAIN res'.body :
                /\ res'.body[i]._id = res.body._id
                /\ res'.body[i].name = res.params.name
                /\ res'.body[i].midias = <<>>]_vars

\* C6 happens: a list has been answered that holds a playlist without media.
C6_Witness ==
  /\ res.op = "GET /playlists"
  /\ res.status = 200
  /\ \E i \in DOMAIN res.body : res.body[i].name \in PlaylistNames /\ res.body[i].midias = <<>>

\* C7: a relink of a stored monitor that answers 200 leaves the monitor's
\* stored playlist reference equal to the playlistId of the request.
C7_RelinkOverwrites ==
  [][\A w \in Workers :
       (/\ SaveMonitor(w)
        /\ res'.status = 200
        /\ req[w].params.monitorId \in DOMAIN monitores)
       => monitores'[req[w].params.monitorId].playlist = req[w].params.playlistId]_vars

\* C8: no two media items, of one playlist or of two, have the same location.
C8_DistinctLocations ==
  \A p, q \in DOMAIN playlists :
    \A i \in DOMAIN playlists[p].midias, j \in DOMAIN playlists[q].midias :
      (p # q \/ i # j) => playlists[p].midias[i].url # playlists[q].midias[j].url

\* a media list whose every location is /uploads/<the name of a stored file>
Resolvable(midias) ==
  \A i \in DOMAIN midias :
    midias[i].url.dir = "/uploads/" /\ midias[i].url.filename \in uploads

\* C9: the location of every media item of every stored playlist, and of every
\* playlist document about to be saved, names a file that uploads/ holds.
C9_LocationsResolve ==
  /\ \A p \in DOMAIN playlists : Resolvable(playlists[p].midias)
  /\ \A w \in Workers :
       (req[w].pc = "save" /\ req[w].op \in {UploadOp, RemoveOp}) => Resolvable(req[w].doc.midias)

\* C9 happens: a stored playlist holds a media item.
C9_Witness == \E p \in DOMAIN playlists : playlists[p].midias # <<>>

\* C10: a link without playlistId answers 400 whether or not the monitor is
\* stored; a link with one, and a relink, of a monitor id that is not stored
\* answer 404; none of them changes a stored monitor or playlist, and the
\* relink ends there.
C10_RejectedLinks ==
  [][\A m \in MonitorIds, body \in Bodies :
       /\ (PostMonitorPlaylists(m, body) /\ body.playlistId = Undefined)
          => res'.status = 400 /\ monitores' = monitores /\ playlists' = playlists
       /\ (PostMonitorPlaylists(m, body) /\ body.playlistId # Undefined
             /\ m \notin DOMAIN monitores)
          => res'.status = 404 /\ monitores' = monitores /\ playlists' = playlists
       /\ \A w \in Workers :
            (PutMonitorPlaylistsFind(w, m, body) /\ m \notin DOMAIN monitores)
            => /\ res'.status = 404 /\ monitores' = monitores /\ playlists' = playlists
               /\ req'[w] = Idle]_vars

\* C10 happens: a link without playlistId was refused though its monitor is stored.
C10_Witness ==
  /\ res.op = LinkOp
  /\ res.status = 400
  /\ res.params.playlistId = Undefined
  /\ res.params.monitorId \in DOMAIN monitores

\* C11: an upload and a removal whose playlist id is not stored answer 404 and
\* leave the Playlist collection as it was: no playlist is created and the
\* media list of every stored playlist is what it was.
C11_MissingPlaylist ==
  [][\A w \in Workers :
       /\ (PostMidiasFind(w) /\ req[w].params.id \notin DOMAIN playlists)
          => /\ res' = Respond(UploadOp, req[w].params, 404, Undefined)
             /\ playlists' = playlists
             /\ req'[w] = Idle
       /\ \A id \in RequestPlaylistIds, midiaId \in MidiaIds :
            (DeleteMidiaFind(w, id, midiaId) /\ id \notin DOMAIN playlists)
            => /\ res'.op = RemoveOp
               /\ res'.status = 404
               /\ playlists' = playlists
               /\ req'[w] = Idle]_vars

\* C11 happens: an upload was refused with 404 while a playlist with media is stored.
C11_Witness ==
  /\ res.op = UploadOp
  /\ res.status = 404
  /\ \E p \in DOMAIN playlists : playlists[p].midias # <<>>

\* C12 as stated: the save of a media mutation is unconditional, so the save
\* of a changed media list into a stored playlist answers 200 and stores the
\* whole list the request computed, whatever was saved since the request read
\* the playlist (the last write wins).
C12_LastWriteWins ==
  [][\A w \in Workers :
       (/\ SaveMidias(w)
        /\ req[w].modified
        /\ req[w].doc._id \in DOMAIN playlists)
       => /\ res'.status = 200
          /\ playlists'[req[w].doc._id].midias = req[w].doc.midias]_vars

\* C12 amended: two media mutations of one playlist race between their reads
\* and their saves, and the first save wins.  The save of a changed media list
\* answers 200 and stores the list when the stored playlist is still the one
\* the request read; when another request saved in between it answers 500 and
\* stores nothing, so the stored list keeps what the other request appended.
C12_FirstWriteWins ==
  [][\A w \in Workers :
       (/\ SaveMidias(w)
        /\ req[w].modified
        /\ req[w].doc._id \in DOMAIN playlists)
       => LET id == req[w].doc._id
          IN IF playlists[id] = req[w].read
             THEN /\ res'.status = 200
                  /\ playlists'[id].midias = req[w].doc.midias
             ELSE /\ res'.status = 500
                  /\ playlists' = playlists]_vars

\* C12 happens: an upload read the playlist before another upload's save and
\* was answered 500 after it; the stored list holds the other upload's items.
C12_Witness ==
  /\ res.op = UploadOp
  /\ res.status = 500
  /\ res.params.id \in DOMAIN playlists
  /\ playlists[res.params.id].midias # <<>>
  /\ playlists[res.params.id].__v = 1

\* the names of the files that the media items of the stored playlists locate
Referenced(coll) ==
  UNION { { coll[p].midias[i].url.filename : i \in DOMAIN coll[p].midias } : p \in DOMAIN coll }

\* C13: deleting a playlist and removing a media item orphan no file: when
\* every file of uploads/ was located by a media item of a stored playlist
\* before the delete or the removal, every file is after it.
C13_NoOrphans ==
  [][/\ \A id \in RequestPlaylistIds :
          (DeletePlaylist(id) /\ uploads \subseteq Referenced(playlists))
          => uploads' \subseteq Referenced(playlists')
     /\ \A w \in Workers :
          (SaveMidias(w) /\ req[w].op = RemoveOp /\ uploads \subseteq Referenced(playlists))
          => uploads' \subseteq Referenced(playlists')]_vars

Ids(midias) == { midias[i]._id : i \in DOMAIN midias }

\* the items of a media list whose id is in S, in their order
RECURSIVE Sel(_, _)
Sel(midias, S) ==
  IF midias = <<>> THEN <<>>
  ELSE IF Head(midias)._id \in S
       THEN <<Head(midias)>> \o Sel(Tail(midias), S)
       ELSE Sel(Tail(midias), S)

\* C15: after every step the items of a stored media list have pairwise
\* distinct ids; and in every step, for every playlist stored before and
\* after it, the items that were in its list and still are have kept their
\* id, name, location and relative order, and an item is gone only when the
\* step is the save of a removal of that item from that playlist.
C15_ItemsStable ==
  [][/\ \A p \in DOMAIN playlists' :
          \A i, j \in DOMAIN playlists'[p].midias :
             playlists'[p].midias[i]._id = playlists'[p].midias[j]._id => i = j
     /\ \A p \in DOMAIN playlists \cap DOMAIN playlists' :
          LET old == playlists[p].midias
              new == playlists'[p].midias
              gone == Ids(old) \ Ids(new)
          IN /\ Sel(new, Ids(old)) = Sel(old, Ids(old) \ gone)
             /\ \A g \in gone :
                  \E w \in Workers :
                     /\ SaveMidias(w)
                     /\ req[w].op = RemoveOp
                     /\ req[w].params = [playlistId |-> p, midiaId |-> g]]_vars

\* C15 happens: the first of two items was removed and the second is stored
\* as it was.
C15_Witness ==
  /\ res.op = RemoveOp
  /\ res.status = 200
  /\ res.params.playlistId \in DOMAIN playlists
  /\ Ids(playlists[res.params.playlistId].midias) = {2}
  /\ res.params.midiaId = 1

C17_FilesWithoutItems ==
  [][\A w \in Workers :
       (\/ PostMidiasFind(w) /\ res'.status = 404 /\ req'[w] = Idle
        \/ SaveMidias(w) /\ req[w].op = UploadOp /\ res'.status = 500)
       => \A i \in DOMAIN req[w].files :
             /\ req[w].files[i].filename \in uploads'
             /\ req[w].files[i].filename \notin Referenced(playlists')]_vars
====
